---- MODULE Spec2Model ----
(***************************************************************************)
(* Model of the TechCrunch crawler: the category crawl of app.py           *)
(* (get_article_links, parse_article, crawl_today, tc_crawl_http) and the  *)
(* feed-based handler of TechCrunchScraper/__init__.py (main).             *)
(*                                                                         *)
(* An article record carries the fields the crawl decides on (url,          *)
(* published_utc, published_kst); title and body are left out.             *)
(*                                                                         *)
(* Strings that the code inspects are sequences of string pieces whose     *)
(* concatenation is the string; the pieces are cut so that a substring or  *)
(* regex test of the code is a test on contiguous pieces.                  *)
(***************************************************************************)
EXTENDS Integers, Sequences, FiniteSets, TLC

VARIABLES
    \* get_article_links on its own
    page,       \* listing page: the a[href] elements in document order
    limit,      \* the limit argument of get_article_links
    links,      \* the list returned by get_article_links
    lpc,        \* position of the link collector run
    \* parse_article on its own
    doc,        \* the fetched article page
    art,        \* the outcome of parse_article
    ppc,        \* position of the parse_article run
    \* tc_crawl_http (app.py)
    req,        \* the query parameters of the request
    envLimit,   \* DEFAULT_LIMIT, read from the environment at start-up
    cfg,        \* only_today, category_url, limit, sleep_sec of the handler
    today_kst,  \* datetime.now(KST) of the today-only branch
    clinks,     \* the list get_article_links returned to the handler
    idx,        \* number of links the loop has finished
    outcomes,   \* what parse_article did for each link so far, in order
    items,      \* the items / results list of the handler
    calls,      \* calls out so far (listing fetch, article fetch, sleep), with
                \* ok = FALSE for one that raised
    cpc,        \* position of the handler
    resp,       \* the HTTP response
    \* main (TechCrunchScraper/__init__.py)
    freq,       \* the query parameters date and n
    target_date,\* the target date, a day number
    n,          \* the clamped article count
    entries,    \* feed.entries
    fitems,     \* the selected entries (items)
    results,    \* the results list
    fcalls,     \* outbound calls so far: feed fetch, article fetch
    fpc,        \* position of the handler
    fresp       \* the HTTP response

\* ------------------------------------------------------------------ bounds
MaxAnchors == 3
MaxLimit == 3
MaxLdScripts == 1
MaxCrawlAnchors == 2
MaxEntries == 3

\* ------------------------------------------------------------- URL strings
DigitVal == [c \in {"0", "1", "2", "3", "4", "5", "6", "7", "8", "9"} |->
                CASE c = "0" -> 0 [] c = "1" -> 1 [] c = "2" -> 2 [] c = "3" -> 3
                  [] c = "4" -> 4 [] c = "5" -> 5 [] c = "6" -> 6 [] c = "7" -> 7
                  [] c = "8" -> 8 [] c = "9" -> 9]

Digits == DOMAIN DigitVal

TC == <<"techcrunch.com">>

\* DEFAULT_CATEGORY_URL, as urlparse splits it
DEFAULT_CATEGORY_URL ==
    [netloc |-> TC, path |-> <<"/", "category", "/", "artificial-intelligence", "/">>]

\* hrefs a listing page may carry, as urlparse splits them
HrefArticleRel  == [netloc |-> <<>>, path |-> <<"/", "2", "0", "2", "5", "/", "0", "9", "/", "a", "/">>]
HrefArticleAbs  == [netloc |-> TC,   path |-> <<"/", "2", "0", "2", "5", "/", "0", "9", "/", "a", "/">>]
HrefArticleB    == [netloc |-> <<"www.">> \o TC, path |-> <<"/", "2", "0", "2", "5", "/", "1", "0", "/", "b", "/">>]
HrefTag         == [netloc |-> <<>>, path |-> <<"/", "tag", "/", "ai", "/">>]
HrefExternal    == [netloc |-> <<"example.com">>, path |-> <<"/", "2", "0", "2", "5", "/", "0", "9", "/", "a", "/">>]
HrefLookalike   == [netloc |-> TC \o <<".evil.io">>, path |-> <<"/", "2", "0", "2", "5", "/", "0", "9", "/", "c", "/">>]

Hrefs == {HrefArticleRel, HrefArticleAbs, HrefArticleB, HrefTag, HrefExternal, HrefLookalike}

\* "techcrunch.com" in netloc
ContainsTC(netloc) ==
    \E i \in 1..Len(netloc) : netloc[i] = TC[1]

\* re.search(r"/20\d{2}/\d{2}/", path)
YearMonthRegex(path) ==
    \E i \in 1..(Len(path) - 8) :
        /\ path[i] = "/"
        /\ path[i + 1] = "2"
        /\ path[i + 2] = "0"
        /\ path[i + 3] \in Digits
        /\ path[i + 4] \in Digits
        /\ path[i + 5] = "/"
        /\ path[i + 6] \in Digits
        /\ path[i + 7] \in Digits
        /\ path[i + 8] = "/"

is_article_url(href) ==
    /\ (ContainsTC(href.netloc) \/ href.netloc = <<>>)
    /\ YearMonthRegex(href.path)

\* the directory of a base path: everything up to its last "/"
RECURSIVE DirOf(_)
DirOf(path) ==
    IF path = <<>> \/ path[Len(path)] = "/" THEN path
    ELSE DirOf(SubSeq(path, 1, Len(path) - 1))

\* urljoin(base, href)
normalize_link(href, base) ==
    IF href.netloc # <<>> THEN href
    ELSE IF href.path # <<>> /\ href.path[1] = "/"
         THEN [netloc |-> base.netloc, path |-> href.path]
         ELSE [netloc |-> base.netloc, path |-> DirOf(base.path) \o href.path]

\* --------------------------------------------------------- link collector
\* An anchor is [href, head]: head says it is the first a[href] of an h3.
Anchors == [href : Hrefs, head : BOOLEAN]

RECURSIVE SeqsUpTo(_, _)
SeqsUpTo(S, k) ==
    IF k = 0 THEN {<<>>}
    ELSE LET shorter == SeqsUpTo(S, k - 1)
         IN  shorter \cup {Append(s, x) : s \in {t \in shorter : Len(t) = k - 1}, x \in S}

Pages == SeqsUpTo(Anchors, MaxAnchors)

\* pass 1: for h3 in soup.find_all("h3") ... break
RECURSIVE H3Pass(_, _, _, _, _)
H3Pass(pg, base, lim, i, acc) ==
    IF i > Len(pg) THEN acc
    ELSE IF pg[i].head /\ is_article_url(pg[i].href)
         THEN LET acc2 == acc \cup {normalize_link(pg[i].href, base)}
              IN  IF Cardinality(acc2) >= lim THEN acc2
                  ELSE H3Pass(pg, base, lim, i + 1, acc2)
         ELSE H3Pass(pg, base, lim, i + 1, acc)

\* pass 2: for a in soup.find_all("a", href=True) ... break
RECURSIVE AllPass(_, _, _, _, _)
AllPass(pg, base, lim, i, acc) ==
    IF i > Len(pg) THEN acc
    ELSE LET acc2 == IF is_article_url(pg[i].href)
                     THEN acc \cup {normalize_link(pg[i].href, base)}
                     ELSE acc
         IN  IF Cardinality(acc2) >= lim THEN acc2
             ELSE AllPass(pg, base, lim, i + 1, acc2)

\* the set `links` when the function reaches its return statement
LinkSet(pg, base, lim) ==
    LET first == H3Pass(pg, base, lim, 1, {})
    IN  IF Cardinality(first) < lim THEN AllPass(pg, base, lim, 1, first)
        ELSE first

\* s[:k] of Python, for any integer k
Slice(s, k) ==
    IF k >= 0 THEN SubSeq(s, 1, IF k < Len(s) THEN k ELSE Len(s))
    ELSE SubSeq(s, 1, IF Len(s) + k > 0 THEN Len(s) + k ELSE 0)

\* list(S): the elements of a set of strings, each once, in the iteration
\* order of the set, which the per-process string hash seed decides
ListOfSet(S) ==
    {s \in [1..Cardinality(S) -> S] : \A i, j \in 1..Cardinality(S) : i # j => s[i] # s[j]}

\* the function with `links` a list: nothing drops a URL met twice
get_article_links_list(pg, base, lim) ==
    LET urls == [i \in 1..Len(pg) |-> normalize_link(pg[i].href, base)]
        heads == SelectSeq([i \in 1..Len(pg) |-> i],
                           LAMBDA i : pg[i].head /\ is_article_url(pg[i].href))
        all == SelectSeq([i \in 1..Len(pg) |-> i], LAMBDA i : is_article_url(pg[i].href))
    IN  {Slice([k \in 1..(Len(heads) + Len(all)) |->
                   IF k <= Len(heads) THEN urls[heads[k]] ELSE urls[all[k - Len(heads)]]],
               lim)}

\* the values get_article_links(category_url, limit) may return for a page
get_article_links(pg, base, lim) ==
    {Slice(s, lim) : s \in ListOfSet(LinkSet(pg, base, lim))}

\* -------------------------------------------------------------- datetimes
\* A datetime is [k, wall, off]: wall-clock hours since the epoch at UTC
\* offset off (hours); k = "none" is None, k = "raise" a raised exception.
KstOffset == 9
HoursPerDay == 24

NoneDt == [k |-> "none", wall |-> 0, off |-> 0]
Raised == [k |-> "raise", wall |-> 0, off |-> 0]
Dt(wall, off) == [k |-> "dt", wall |-> wall, off |-> off]

\* dt.astimezone(timezone.utc), dt.astimezone(KST), dt.date()
AsUtc(dt) == Dt(dt.wall - dt.off, 0)
AsKst(dt) == Dt(dt.wall - dt.off + KstOffset, KstOffset)
DateOf(dt) == dt.wall \div HoursPerDay

\* An attribute value holding a timestamp is [s, wall, tz]: s = "iso" for an
\* ISO-8601 text with wall-clock hours wall and suffix tz, "junk" for any
\* other non-empty text, "" for the empty text, "absent" for no attribute.
Iso(wall, tz) == [s |-> "iso", wall |-> wall, tz |-> tz]
JunkText == [s |-> "junk", wall |-> 0, tz |-> ""]
EmptyText == [s |-> "", wall |-> 0, tz |-> ""]
AbsentAttr == [s |-> "absent", wall |-> 0, tz |-> ""]

Truthy(v) == v.s \notin {"", "absent"}

\* text.replace("Z", "+00:00")
ReplaceZ(v) == IF v.s = "iso" /\ v.tz = "Z" THEN [v EXCEPT !.tz = "+00:00"] ELSE v

\* datetime.fromisoformat(text): a datetime, or Raised (ValueError)
fromisoformat(v) ==
    IF v.s = "iso" /\ v.tz = "+00:00" THEN Dt(v.wall, 0)
    ELSE IF v.s = "iso" /\ v.tz = "+09:00" THEN Dt(v.wall, KstOffset)
    ELSE Raised

\* dt.isoformat() of a datetime at offset 0 or +9
isoformat(dt) == Iso(dt.wall, IF dt.off = KstOffset THEN "+09:00" ELSE "+00:00")

\* Visible text is [t, day]: t = "date" when it holds a "Month d, yyyy" date
\* (day number day), "baddate" when the pattern matches no calendar date
\* ("February 31, 2025"), "nodate" when nothing matches, "" when empty.
TextDate(day) == [t |-> "date", day |-> day]
TextBadDate == [t |-> "baddate", day |-> 0]
TextNoDate == [t |-> "nodate", day |-> 0]
TextEmpty == [t |-> "", day |-> 0]

\* ------------------------------------------------------- field extractors
get_meta_datetime(d) ==
    IF d.meta.s # "absent" /\ Truthy(d.meta)
    THEN LET r == fromisoformat(ReplaceZ(d.meta))
         IN  IF r.k = "raise" THEN NoneDt ELSE r
    ELSE NoneDt

parse_human_datetime(text) ==
    IF text.t = "date" THEN Dt(HoursPerDay * text.day, 0)
    ELSE NoneDt

ArticleTypes == {"NewsArticle", "Article", "BlogPosting"}

\* the inner loop over the objects of one script: a datetime when an object
\* returns one, Raised when one raises, NoneDt when the loop runs out
RECURSIVE LdObjects(_, _)
LdObjects(objs, j) ==
    IF j > Len(objs) THEN NoneDt
    ELSE IF objs[j].type \in ArticleTypes /\ Truthy(objs[j].date)
         THEN fromisoformat(ReplaceZ(objs[j].date))
         ELSE LdObjects(objs, j + 1)

RECURSIVE LdScripts(_, _)
LdScripts(scripts, i) ==
    IF i > Len(scripts) THEN NoneDt
    ELSE IF ~scripts[i].json THEN LdScripts(scripts, i + 1)
         ELSE LET r == LdObjects(scripts[i].objs, 1)
              IN  IF r.k = "dt" THEN r ELSE LdScripts(scripts, i + 1)

get_ldjson_datetime(d) == LdScripts(d.ld, 1)

get_time_tag_datetime(d) ==
    LET t == d.time
        r == IF t.present /\ Truthy(t.datetime)
             THEN fromisoformat(ReplaceZ(t.datetime))
             ELSE Raised
    IN  IF r.k = "dt" THEN r
        ELSE IF t.present /\ t.text.t # "" THEN parse_human_datetime(t.text)
        ELSE NoneDt

get_text_datetime_fallback(d) == parse_human_datetime(d.text)

\* a or b of Python on extractor results: an exception in a propagates
OrElse(a, b) == IF a.k = "none" THEN b ELSE a

published_dt_swapped(d) ==
    OrElse(get_ldjson_datetime(d),
           OrElse(get_meta_datetime(d),
                  OrElse(get_time_tag_datetime(d), get_text_datetime_fallback(d))))

published_dt(d) ==
    OrElse(get_meta_datetime(d),
           OrElse(get_ldjson_datetime(d),
                  OrElse(get_time_tag_datetime(d), get_text_datetime_fallback(d))))

\* parse_article(url) on a fetched page d: the record, or ok = FALSE when an
\* exception leaves the function
FailedParse(url) ==
    [ok |-> FALSE, url |-> url, published_utc |-> AbsentAttr, published_kst |-> AbsentAttr]

parse_article(url, d) ==
    LET dt == published_dt(d)
    IN  IF dt.k = "raise" THEN FailedParse(url)
        ELSE [ok |-> TRUE, url |-> url,
              published_utc |-> IF dt.k = "dt" THEN isoformat(AsUtc(dt)) ELSE AbsentAttr,
              published_kst |-> IF dt.k = "dt" THEN isoformat(AsKst(dt)) ELSE AbsentAttr]

\* --------------------------------------------------------- article pages
MetaValues == {AbsentAttr, EmptyText, JunkText, Iso(15, "Z")}

LdObjectValues ==
    {[type |-> "WebPage", date |-> Iso(40, "+09:00")],
     [type |-> "NewsArticle", date |-> AbsentAttr],
     [type |-> "Article", date |-> JunkText],
     [type |-> "NewsArticle", date |-> Iso(40, "+09:00")]}

LdScriptValues ==
    {[json |-> FALSE, objs |-> <<>>]}
        \cup {[json |-> TRUE, objs |-> <<o>>] : o \in LdObjectValues}
        \cup {[json |-> TRUE, objs |-> <<o, p>>] : o, p \in LdObjectValues}

TimeValues ==
    {[present |-> FALSE, datetime |-> AbsentAttr, text |-> TextEmpty]}
        \cup [present : {TRUE},
              datetime : {AbsentAttr, JunkText, Iso(50, "+00:00")},
              text : {TextEmpty, TextNoDate, TextBadDate, TextDate(3)}]

PageTextValues == {TextNoDate, TextBadDate, TextDate(4)}

\* the page text includes the text of the time element
Documents ==
    {d \in [meta : MetaValues, ld : SeqsUpTo(LdScriptValues, MaxLdScripts),
            time : TimeValues, text : PageTextValues] :
        d.time.text.t \in {"date", "baddate"} => d.text.t # "nodate"}

ArticleUrl == normalize_link(HrefArticleRel, DEFAULT_CATEGORY_URL)

\* ------------------------------------------------------ query parameters
\* A query parameter is [given, text]: text is the value, one character a
\* piece; given = FALSE when the parameter is absent (qs.get returns None).
Absent == [given |-> FALSE, text |-> <<>>]
Given(text) == [given |-> TRUE, text |-> text]

RECURSIVE DigitsValue(_)
DigitsValue(text) ==
    IF text = <<>> THEN 0
    ELSE 10 * DigitsValue(SubSeq(text, 1, Len(text) - 1)) + DigitVal[text[Len(text)]]

AllDigits(text) == text # <<>> /\ \A i \in 1..Len(text) : text[i] \in Digits

\* int(text) for text without blanks: [ok, val], ok = FALSE for ValueError
ParseInt(text) ==
    IF text # <<>> /\ text[1] \in {"-", "+"}
    THEN IF AllDigits(Tail(text))
         THEN [ok |-> TRUE, val |-> IF text[1] = "-" THEN 0 - DigitsValue(Tail(text))
                                                      ELSE DigitsValue(Tail(text))]
         ELSE [ok |-> FALSE, val |-> 0]
    ELSE IF AllDigits(text) THEN [ok |-> TRUE, val |-> DigitsValue(text)]
         ELSE [ok |-> FALSE, val |-> 0]

\* float(text) in tenths of a second, for texts "d..d" and "d..d.d"
ParseTenths(text) ==
    IF AllDigits(text) THEN [ok |-> TRUE, val |-> 10 * DigitsValue(text)]
    ELSE IF Len(text) >= 3 /\ text[Len(text) - 1] = "."
            /\ AllDigits(SubSeq(text, 1, Len(text) - 2)) /\ text[Len(text)] \in Digits
         THEN [ok |-> TRUE,
               val |-> 10 * DigitsValue(SubSeq(text, 1, Len(text) - 2)) + DigitVal[text[Len(text)]]]
         ELSE [ok |-> FALSE, val |-> 0]

Min(a, b) == IF a < b THEN a ELSE b
Max(a, b) == IF a > b THEN a ELSE b

\* text.strip()
RECURSIVE Strip(_)
Strip(text) ==
    IF text # <<>> /\ text[1] = " " THEN Strip(Tail(text))
    ELSE IF text # <<>> /\ text[Len(text)] = " " THEN Strip(SubSeq(text, 1, Len(text) - 1))
    ELSE text

\* program constants of app.py
DEFAULT_LIMIT_DEFAULT == 40
LIMIT_MIN == 1
LIMIT_MAX == 200
DEFAULT_SLEEP == 7
SLEEP_MIN == 0
SLEEP_MAX == 50

_to_int(v, default, min_v, max_v) ==
    IF ~v.given THEN Max(min_v, Min(max_v, default))
    ELSE LET x == ParseInt(v.text)
         IN  IF x.ok THEN Max(min_v, Min(max_v, x.val)) ELSE default

_to_float(v, default, min_v, max_v) ==
    IF ~v.given THEN Max(min_v, Min(max_v, default))
    ELSE LET x == ParseTenths(v.text)
         IN  IF x.ok THEN Max(min_v, Min(max_v, x.val)) ELSE default

\* (qs.get("today") or "1").strip() == "1"
only_today_of(v) ==
    Strip(IF v.given /\ v.text # <<>> THEN v.text ELSE <<"1">>) = <<"1">>

\* (qs.get("url") or DEFAULT_CATEGORY_URL).strip(), as urlparse splits it
category_url_of(v) == IF v.given THEN v.url ELSE DEFAULT_CATEGORY_URL

CustomCategoryUrl == [netloc |-> <<"example.com">>, path |-> <<"/", "news", "/">>]

TodayValues == {Absent, Given(<<"0">>), Given(<<" ", "1">>), Given(<<"y", "e", "s">>)}
LimitValues == {Absent, Given(<<"a", "b", "c">>), Given(<<"-", "1">>), Given(<<"2", "0", "1">>)}
SleepValues == {Absent, Given(<<"x">>), Given(<<"9">>)}
UrlValues == {[given |-> FALSE, url |-> DEFAULT_CATEGORY_URL],
              [given |-> TRUE, url |-> CustomCategoryUrl]}
EnvLimits == {DEFAULT_LIMIT_DEFAULT, 500}

\* ------------------------------------------------------------- day filter
is_today_kst_utc(dt, today) ==
    dt.k = "dt" /\ DateOf(AsUtc(dt)) = DateOf(today)

is_today_kst(dt, today) ==
    dt.k = "dt" /\ DateOf(AsKst(dt)) = DateOf(today)

\* art["published_kst"] and is_today_kst(datetime.fromisoformat(...), today_kst)
KeepToday(a, today) ==
    Truthy(a.published_kst) /\ is_today_kst(fromisoformat(a.published_kst), today)

\* article pages the crawl meets, and the clock readings of datetime.now
CrawlDocuments ==
    {[meta |-> m, ld |-> <<>>,
      time |-> [present |-> FALSE, datetime |-> AbsentAttr, text |-> TextEmpty],
      text |-> TextNoDate] : m \in {AbsentAttr, Iso(15, "Z"), Iso(39, "Z")}}

NowUtcHours == {15, 39}

\* listing pages the crawl meets
CrawlPages ==
    SeqsUpTo({[href |-> HrefArticleRel, head |-> TRUE], [href |-> HrefArticleAbs, head |-> FALSE],
              [href |-> HrefArticleB, head |-> FALSE], [href |-> HrefTag, head |-> TRUE]},
             MaxCrawlAnchors)

\* where the loop goes after the except clause of a failed article
AfterParseFail_abort == "error"

AfterParseFail == "sleep"

\* ------------------------------------------------------------ feed handler
\* program constants of TechCrunchScraper/__init__.py
N_DEFAULT == 10
N_MIN == 1
N_MAX == 30

\* A date text is a sequence of pieces year, separator, month, separator,
\* day.  Day numbers count from 2025-09-09, the day hour 0 belongs to.
DayNumber == [d \in {"09", "10", "11"} |-> CASE d = "09" -> 0 [] d = "10" -> 1 [] d = "11" -> 2]

\* datetime.strptime(text, "%Y-%m-%d").date(): [ok, day], ok = FALSE for
\* ValueError
strptime_ymd(text) ==
    IF /\ Len(text) = 5
       /\ text[1] = "2025" /\ text[2] = "-" /\ text[3] = "09" /\ text[4] = "-"
       /\ text[5] \in DOMAIN DayNumber
    THEN [ok |-> TRUE, day |-> DayNumber[text[5]]]
    ELSE [ok |-> FALSE, day |-> 0]

\* lines 176-184
n_of(v) ==
    LET x == ParseInt(IF v.given THEN v.text ELSE <<"1", "0">>)
    IN  Max(N_MIN, Min(IF x.ok THEN x.val ELSE N_DEFAULT, N_MAX))

\* A feed entry is [published_parsed, updated_parsed], each a UTC datetime
\* or NoneDt; its link is its position in the feed.
parse_date_to_kst_updated_first(e) ==
    IF e.updated_parsed.k = "dt" THEN AsKst(Dt(e.updated_parsed.wall, 0))
    ELSE IF e.published_parsed.k = "dt" THEN AsKst(Dt(e.published_parsed.wall, 0))
    ELSE NoneDt

parse_date_to_kst(e) ==
    IF e.published_parsed.k = "dt" THEN AsKst(Dt(e.published_parsed.wall, 0))
    ELSE IF e.updated_parsed.k = "dt" THEN AsKst(Dt(e.updated_parsed.wall, 0))
    ELSE NoneDt

FeedItem(es, i) ==
    LET kst_dt == parse_date_to_kst(es[i])
    IN  [url |-> i,
         published_at_kst |-> IF kst_dt.k = "dt" THEN isoformat(kst_dt) ELSE AbsentAttr]

\* lines 192-216: the entries of the target date, in feed order
RECURSIVE TodayItems(_, _, _)
TodayItems(es, target, i) ==
    IF i > Len(es) THEN <<>>
    ELSE LET kst_dt == parse_date_to_kst(es[i])
         IN  IF kst_dt.k = "dt" /\ DateOf(kst_dt) = target
             THEN <<FeedItem(es, i)>> \o TodayItems(es, target, i + 1)
             ELSE TodayItems(es, target, i + 1)

\* lines 222-240: without any, the first n entries
SelectItems(es, target, cnt) ==
    LET today == TodayItems(es, target, 1)
    IN  IF today = <<>>
        THEN [i \in 1..Len(Slice(es, cnt)) |-> FeedItem(es, i)]
        ELSE today

EntryValues ==
    {[published_parsed |-> NoneDt, updated_parsed |-> NoneDt],
     [published_parsed |-> Dt(15, 0), updated_parsed |-> NoneDt],
     [published_parsed |-> Dt(39, 0), updated_parsed |-> NoneDt],
     [published_parsed |-> NoneDt, updated_parsed |-> Dt(15, 0)],
     [published_parsed |-> Dt(14, 0), updated_parsed |-> Dt(15, 0)]}

Feeds == SeqsUpTo(EntryValues, MaxEntries)

DateValues == {Absent, Given(<<"2025", "-", "09", "-", "10">>),
               Given(<<"2025", "-", "09", "-", "11">>),
               Given(<<"2025", "/", "09", "/", "10">>)}
NValues == {Absent, Given(<<"a", "b", "c">>), Given(<<"0">>), Given(<<"2">>), Given(<<"3", "1">>)}

\* ------------------------------------------------- the collector on its own
linkVars == <<page, limit, links, lpc>>
parseVars == <<doc, art, ppc>>
crawlVars == <<req, envLimit, cfg, today_kst, clinks, idx, outcomes, items, calls, cpc, resp>>
feedVars == <<freq, target_date, n, entries, fitems, results, fcalls, fpc, fresp>>
vars == <<linkVars, parseVars, crawlVars, feedVars>>

LinksIdle == page = <<>> /\ limit = 0 /\ links = <<>> /\ lpc = "idle"
ParseIdle == doc = <<>> /\ art = <<>> /\ ppc = "idle"
CrawlIdle ==
    /\ req = <<>> /\ envLimit = 0 /\ cfg = <<>> /\ today_kst = NoneDt /\ clinks = <<>>
    /\ idx = 0 /\ outcomes = <<>> /\ items = <<>> /\ calls = <<>> /\ cpc = "idle"
    /\ resp = <<>>
FeedIdle ==
    /\ freq = <<>> /\ target_date = 0 /\ n = 0 /\ entries = <<>> /\ fitems = <<>>
    /\ results = <<>> /\ fcalls = <<>> /\ fpc = "idle" /\ fresp = <<>>

LinksInit ==
    /\ page \in Pages
    /\ limit \in 1..MaxLimit
    /\ links = <<>>
    /\ lpc = "start"
    /\ ParseIdle
    /\ CrawlIdle
    /\ FeedIdle

\* fetch(category_url) succeeds and the function returns
Collect ==
    /\ lpc = "start"
    /\ links' \in get_article_links(page, DEFAULT_CATEGORY_URL, limit)
    /\ lpc' = "done"
    /\ UNCHANGED <<page, limit, parseVars, crawlVars, feedVars>>

\* fetch(category_url) raises
CollectFail ==
    /\ lpc = "start"
    /\ lpc' = "raised"
    /\ UNCHANGED <<page, limit, links, parseVars, crawlVars, feedVars>>

LinksNext == Collect \/ CollectFail

LinksSpec == LinksInit /\ [][LinksNext]_vars

\* ------------------------------------------------ parse_article on its own
ParseInit ==
    /\ doc \in Documents
    /\ art = <<>>
    /\ ppc = "start"
    /\ LinksIdle
    /\ CrawlIdle
    /\ FeedIdle

\* fetch(url) succeeds and parse_article runs to its end
Parse ==
    /\ ppc = "start"
    /\ art' = parse_article(ArticleUrl, doc)
    /\ ppc' = "done"
    /\ UNCHANGED <<doc, linkVars, crawlVars, feedVars>>

\* fetch(url) raises
ParseFetchFail ==
    /\ ppc = "start"
    /\ ppc' = "raised"
    /\ UNCHANGED <<doc, art, linkVars, crawlVars, feedVars>>

ParseNext == Parse \/ ParseFetchFail

ParseSpec == ParseInit /\ [][ParseNext]_vars

\* ------------------------------------------------------- tc_crawl_http
CrawlInit ==
    /\ req \in [today : TodayValues, url : UrlValues, limit : LimitValues, sleep : SleepValues]
    /\ envLimit \in EnvLimits
    /\ cfg = <<>>
    /\ today_kst = NoneDt
    /\ clinks = <<>>
    /\ idx = 0
    /\ outcomes = <<>>
    /\ items = <<>>
    /\ calls = <<>>
    /\ cpc = "start"
    /\ resp = <<>>
    /\ LinksIdle
    /\ ParseIdle
    /\ FeedIdle

\* lines 219-224: the query parameters become the crawl's settings
ParseParams ==
    /\ cpc = "start"
    /\ cfg' = [only_today |-> only_today_of(req.today),
               category_url |-> category_url_of(req.url),
               limit |-> _to_int(req.limit, envLimit, LIMIT_MIN, LIMIT_MAX),
               sleep_sec |-> _to_float(req.sleep, DEFAULT_SLEEP, SLEEP_MIN, SLEEP_MAX)]
    /\ cpc' = "collect"
    /\ UNCHANGED <<req, envLimit, today_kst, clinks, idx, outcomes, items, calls, resp,
                   linkVars, parseVars, feedVars>>

\* lines 233-234 / 237: the clock is read in today-only mode, the listing is
\* fetched and get_article_links returns
CollectLinks ==
    /\ cpc = "collect"
    /\ \E now \in NowUtcHours :
         today_kst' = IF cfg.only_today THEN AsKst(Dt(now, 0)) ELSE NoneDt
    /\ \E pg \in CrawlPages : clinks' \in get_article_links(pg, cfg.category_url, cfg.limit)
    /\ calls' = Append(calls, [op |-> "listing", url |-> cfg.category_url, ok |-> TRUE, sec |-> 0])
    /\ cpc' = IF clinks' = <<>> THEN "respond" ELSE "fetch"
    /\ UNCHANGED <<req, envLimit, cfg, idx, outcomes, items, resp, linkVars, parseVars,
                   feedVars>>

\* the same with the listing fetch raising: the outer except clause answers
CollectLinksFail ==
    /\ cpc = "collect"
    /\ calls' = Append(calls, [op |-> "listing", url |-> cfg.category_url, ok |-> FALSE, sec |-> 0])
    /\ \E now \in NowUtcHours :
         today_kst' = IF cfg.only_today THEN AsKst(Dt(now, 0)) ELSE NoneDt
    /\ cpc' = "error"
    /\ UNCHANGED <<req, envLimit, cfg, clinks, idx, outcomes, items, resp,
                   linkVars, parseVars, feedVars>>

\* one pass through the try block of the loop, the article fetch succeeding
FetchArticle ==
    /\ cpc = "fetch"
    /\ \E d \in CrawlDocuments :
         LET a == parse_article(clinks[idx + 1], d)
         IN  /\ outcomes' = Append(outcomes, a)
             /\ items' = IF a.ok /\ (cfg.only_today => KeepToday(a, today_kst))
                         THEN Append(items, a) ELSE items
             /\ cpc' = IF a.ok THEN "sleep" ELSE AfterParseFail
    /\ calls' = Append(calls, [op |-> "article", url |-> clinks[idx + 1], ok |-> TRUE, sec |-> 0])
    /\ UNCHANGED <<req, envLimit, cfg, today_kst, clinks, idx, resp, linkVars, parseVars,
                   feedVars>>

\* one pass through the try block, fetch(url) raising: logged, nothing added
FetchArticleFail ==
    /\ cpc = "fetch"
    /\ outcomes' = Append(outcomes, FailedParse(clinks[idx + 1]))
    /\ calls' = Append(calls, [op |-> "article", url |-> clinks[idx + 1], ok |-> FALSE, sec |-> 0])
    /\ cpc' = AfterParseFail
    /\ UNCHANGED <<req, envLimit, cfg, today_kst, clinks, idx, items, resp,
                   linkVars, parseVars, feedVars>>

\* time.sleep(sleep_sec), then the next link or the end of the loop
Sleep ==
    /\ cpc = "sleep"
    /\ calls' = Append(calls, [op |-> "sleep", url |-> clinks[idx + 1], ok |-> TRUE,
                                sec |-> cfg.sleep_sec])
    /\ idx' = idx + 1
    /\ cpc' = IF idx + 1 < Len(clinks) THEN "fetch" ELSE "respond"
    /\ UNCHANGED <<req, envLimit, cfg, today_kst, clinks, outcomes, items, resp,
                   linkVars, parseVars, feedVars>>

\* lines 247-251
Respond200 ==
    /\ cpc = "respond"
    /\ resp' = [status |-> 200, ok |-> TRUE, count |-> Len(items), items |-> items]
    /\ cpc' = "done"
    /\ UNCHANGED <<req, envLimit, cfg, today_kst, clinks, idx, outcomes, items, calls,
                   linkVars, parseVars, feedVars>>

\* lines 252-258
Respond500 ==
    /\ cpc = "error"
    /\ resp' = [status |-> 500, ok |-> FALSE, count |-> 0, items |-> <<>>]
    /\ cpc' = "done"
    /\ UNCHANGED <<req, envLimit, cfg, today_kst, clinks, idx, outcomes, items, calls,
                   linkVars, parseVars, feedVars>>

CrawlNext ==
    \/ ParseParams
    \/ CollectLinks
    \/ CollectLinksFail
    \/ FetchArticle
    \/ FetchArticleFail
    \/ Sleep
    \/ Respond200
    \/ Respond500

CrawlSpec == CrawlInit /\ [][CrawlNext]_vars

\* ------------------------------------------------------------------ main
FeedInit ==
    /\ freq \in [date : DateValues, n : NValues]
    /\ target_date = 0
    /\ n = 0
    /\ entries = <<>>
    /\ fitems = <<>>
    /\ results = <<>>
    /\ fcalls = <<>>
    /\ fpc = "start"
    /\ fresp = <<>>
    /\ LinksIdle
    /\ ParseIdle
    /\ CrawlIdle

\* lines 162-184, date given and well formed, or not given
FeedParams ==
    /\ fpc = "start"
    /\ IF freq.date.given /\ freq.date.text # <<>>
       THEN /\ strptime_ymd(freq.date.text).ok
            /\ target_date' = strptime_ymd(freq.date.text).day
       ELSE \E now \in NowUtcHours : target_date' = DateOf(AsKst(Dt(now, 0)))
    /\ n' = n_of(freq.n)
    /\ fpc' = "feed"
    /\ UNCHANGED <<freq, entries, fitems, results, fcalls, fresp,
                   linkVars, parseVars, crawlVars>>

\* line 166 raises ValueError: the outer except clause answers
FeedParamsFail ==
    /\ fpc = "start"
    /\ freq.date.given /\ freq.date.text # <<>>
    /\ ~strptime_ymd(freq.date.text).ok
    /\ fpc' = "error"
    /\ UNCHANGED <<freq, target_date, n, entries, fitems, results, fcalls, fresp,
                   linkVars, parseVars, crawlVars>>

\* lines 188-240: the feed is fetched and the items selected
FeedParse ==
    /\ fpc = "feed"
    /\ entries' \in Feeds
    /\ fitems' = SelectItems(entries', target_date, n)
    /\ fcalls' = Append(fcalls, [op |-> "feed", url |-> 0])
    /\ fpc' = IF Slice(fitems', n) = <<>> THEN "respond" ELSE "fetch"
    /\ UNCHANGED <<freq, target_date, n, results, fresp, linkVars, parseVars, crawlVars>>

\* lines 248-262: one pass of the loop; fetch_article_text gives the text,
\* or "" when its fetch fails
FetchText ==
    /\ fpc = "fetch"
    /\ LET item == Slice(fitems, n)[Len(results) + 1]
       IN  /\ \E content \in {"", "text"} :
                results' = Append(results, [url |-> item.url,
                                            published_at_kst |-> item.published_at_kst,
                                            content |-> content])
           /\ fcalls' = Append(fcalls, [op |-> "article", url |-> item.url])
    /\ fpc' = IF Len(results') < Len(Slice(fitems, n)) THEN "fetch" ELSE "respond"
    /\ UNCHANGED <<freq, target_date, n, entries, fitems, fresp,
                   linkVars, parseVars, crawlVars>>

\* lines 266-302
FeedRespond200 ==
    /\ fpc = "respond"
    /\ fresp' = [status |-> 200, date_kst |-> target_date, count |-> Len(results)]
    /\ fpc' = "done"
    /\ UNCHANGED <<freq, target_date, n, entries, fitems, results, fcalls,
                   linkVars, parseVars, crawlVars>>

\* lines 304-316
FeedRespond500 ==
    /\ fpc = "error"
    /\ fresp' = [status |-> 500, date_kst |-> 0, count |-> 0]
    /\ fpc' = "done"
    /\ UNCHANGED <<freq, target_date, n, entries, fitems, results, fcalls,
                   linkVars, parseVars, crawlVars>>

FeedNext ==
    \/ FeedParams
    \/ FeedParamsFail
    \/ FeedParse
    \/ FetchText
    \/ FeedRespond200
    \/ FeedRespond500

FeedSpec == FeedInit /\ [][FeedNext]_vars

\* =================================================================== claims

\* ---- helpers of the claims
NoRepeat(s) == \A i, j \in 1..Len(s) : i # j => s[i] # s[j]

Range(s) == {s[i] : i \in 1..Len(s)}

\* a sequence without the later copies of its elements
RECURSIVE Dedupe(_)
Dedupe(s) ==
    IF s = <<>> THEN <<>>
    ELSE LET front == Dedupe(SubSeq(s, 1, Len(s) - 1))
         IN  IF s[Len(s)] \in Range(front) THEN front ELSE Append(front, s[Len(s)])

\* the qualifying links of a page in collection order: heading links in
\* document order, then every anchor in document order
CollectionOrder(pg, base) ==
    LET idxs == [i \in 1..Len(pg) |-> i]
        heads == SelectSeq(idxs, LAMBDA i : pg[i].head /\ is_article_url(pg[i].href))
        all == SelectSeq(idxs, LAMBDA i : is_article_url(pg[i].href))
    IN  Dedupe([k \in 1..(Len(heads) + Len(all)) |->
                   IF k <= Len(heads) THEN normalize_link(pg[heads[k]].href, base)
                   ELSE normalize_link(pg[all[k - Len(heads)]].href, base)])

\* a path with a segment of four digits followed by a segment of two digits
HasYearMonthSegment(path) ==
    \E i \in 1..(Len(path) - 7) :
        /\ path[i] = "/"
        /\ \A k \in 1..4 : path[i + k] \in Digits
        /\ path[i + 5] = "/"
        /\ path[i + 6] \in Digits
        /\ path[i + 7] \in Digits
        /\ (i + 8 > Len(path) \/ path[i + 8] = "/")

\* the host is the site's domain or a subdomain of it
HostIsSite(netloc) == netloc = TC \/ netloc = <<"www.">> \o TC

\* C1: the list get_article_links returns holds no URL twice and has at
\* most `limit` elements.
C1_NoDuplicateWithinLimit ==
    lpc = "done" => (NoRepeat(links) /\ Len(links) <= limit)

\* a page carrying one article as a relative and as an absolute link, and
\* more distinct articles than the limit allows
C1_Witness ==
    /\ lpc = "done"
    /\ \E i, j \in 1..Len(page) :
          i < j /\ page[i].href = HrefArticleRel /\ page[j].href = HrefArticleAbs
    /\ Len(CollectionOrder(page, DEFAULT_CATEGORY_URL)) > limit
    /\ Len(links) = limit

\* C2: the returned list is the qualifying links in collection order (heading
\* links first, then the remaining anchors, each in document order), cut to
\* `limit`.
C2_CollectionOrder ==
    lpc = "done" => links = Slice(CollectionOrder(page, DEFAULT_CATEGORY_URL), limit)

\* C3: every returned URL comes from a link whose path has a year/month
\* segment and whose host is empty or the site's.
C3_OnlySiteArticles ==
    lpc = "done" =>
        \A k \in 1..Len(links) :
            \E i \in 1..Len(page) :
                /\ normalize_link(page[i].href, DEFAULT_CATEGORY_URL) = links[k]
                /\ HasYearMonthSegment(page[i].href.path)
                /\ (page[i].href.netloc = <<>> \/ HostIsSite(page[i].href.netloc))

\* ---- the crawl endpoint
HasTimestamp(a) == a.published_utc.s = "iso"

\* the Asia/Seoul calendar day of a record's publish instant
KstDay(a) == (a.published_utc.wall + KstOffset) \div HoursPerDay

TargetDay == DateOf(today_kst)

CrawlAnswered == cpc = "done"

ListingFetched == \E i \in 1..Len(calls) : calls[i].op = "listing" /\ calls[i].ok

\* C4: in today-only mode every returned item is dated the target day in
\* Asia/Seoul, every parsed article of that day is returned, and articles of
\* the day before or after and undated articles are not.
C4_TodayOnly ==
    (CrawlAnswered /\ resp.status = 200 /\ cfg.only_today) =>
        /\ \A i \in 1..Len(resp.items) :
              HasTimestamp(resp.items[i]) /\ KstDay(resp.items[i]) = TargetDay
        /\ \A j \in 1..Len(outcomes) :
              (outcomes[j].ok /\ HasTimestamp(outcomes[j]) /\ KstDay(outcomes[j]) = TargetDay)
                  => outcomes[j] \in Range(resp.items)
        /\ \A j \in 1..Len(outcomes) :
              (outcomes[j].ok /\ HasTimestamp(outcomes[j])
                 /\ KstDay(outcomes[j]) \in {TargetDay - 1, TargetDay + 1})
                  => outcomes[j] \notin Range(resp.items)
        /\ \A j \in 1..Len(outcomes) :
              (outcomes[j].ok /\ ~HasTimestamp(outcomes[j]))
                  => outcomes[j] \notin Range(resp.items)

\* a today-only crawl that parsed an article of the target day and one of
\* the day before
C4_Witness ==
    /\ CrawlAnswered /\ resp.status = 200 /\ cfg.only_today
    /\ \E i, j \in 1..Len(outcomes) :
          /\ outcomes[i].ok /\ HasTimestamp(outcomes[i]) /\ KstDay(outcomes[i]) = TargetDay
          /\ outcomes[j].ok /\ HasTimestamp(outcomes[j]) /\ KstDay(outcomes[j]) = TargetDay - 1
    /\ Len(resp.items) = 1

\* the records a crawl is to return: the parsed ones, of the target day in
\* today-only mode
Surviving(a) == a.ok /\ (cfg.only_today => (HasTimestamp(a) /\ KstDay(a) = TargetDay))

ArticleCalls == SelectSeq(calls, LAMBDA c : c.op = "article")

\* C5: once the listing is fetched the answer is 200 whatever articles fail,
\* its items are the surviving records in link order, and every link is
\* fetched once, in order.
C5_FailuresIsolated ==
    (CrawlAnswered /\ ListingFetched) =>
        /\ resp.status = 200
        /\ resp.items = SelectSeq(outcomes, Surviving)
        /\ resp.count = Len(resp.items)
        /\ Len(outcomes) = Len(clinks)
        /\ [i \in 1..Len(ArticleCalls) |-> ArticleCalls[i].url] = clinks

\* a crawl whose first article failed and whose second was returned
C5_Witness ==
    /\ CrawlAnswered /\ ListingFetched
    /\ Len(outcomes) = 2
    /\ ~outcomes[1].ok
    /\ resp.items = <<outcomes[2]>>

\* ---- the feed handler
FeedAnswered == fpc = "done"

\* no article fetch directly follows an article fetch
DelayBetweenFetches(log) ==
    \A i \in 1..(Len(log) - 1) : ~(log[i].op = "article" /\ log[i + 1].op = "article")

\* C6: in the category crawl and in the feed handler a delay separates any
\* two consecutive article fetches.
C6_PoliteDelay == DelayBetweenFetches(calls) /\ DelayBetweenFetches(fcalls)

\* a date parameter that is given and is not a YYYY-MM-DD date
InvalidDate(v) == v.given /\ v.text # <<>> /\ ~strptime_ymd(v.text).ok

\* C7: an invalid parameter value never rejects the request: the handler
\* goes on with the default and answers 200.
C7_InvalidParamFallsBack ==
    (FeedAnswered /\ (InvalidDate(freq.date) \/ (freq.n.given /\ ~ParseInt(freq.n.text).ok))) =>
        /\ fresp.status = 200
        /\ InvalidDate(freq.date) => target_date \in {DateOf(AsKst(Dt(h, 0))) : h \in NowUtcHours}
        /\ (freq.n.given /\ ~ParseInt(freq.n.text).ok) => n = N_DEFAULT

\* C8: the limit handed to the link collector lies in 1..200 (n in 1..30 in
\* the feed handler) and the response count does not exceed it.
C8_LimitClamped ==
    /\ cpc \in {"collect", "fetch", "sleep", "respond", "error", "done"} =>
          cfg.limit \in LIMIT_MIN..LIMIT_MAX
    /\ (CrawlAnswered /\ resp.status = 200) => resp.count <= cfg.limit
    /\ (FeedAnswered /\ fresp.status = 200) => (n \in N_MIN..N_MAX /\ fresp.count <= n)

\* ---- parse_article
\* what each source of a page holds: the publish instant (UTC hours) of a
\* well-formed value, NoInstant for an absent or malformed one
NoInstant == 0 - 1

TzHours(tz) == IF tz = "+09:00" THEN KstOffset ELSE 0

ValueInstant(v) == IF v.s = "iso" THEN v.wall - TzHours(v.tz) ELSE NoInstant

TextInstant(text) == IF text.t = "date" THEN HoursPerDay * text.day ELSE NoInstant

MetaSource(d) == ValueInstant(d.meta)

\* a script yields the date of its first dated article object
ScriptSource(sc) ==
    LET dated == {j \in 1..Len(sc.objs) :
                     sc.objs[j].type \in ArticleTypes /\ sc.objs[j].date.s \in {"iso", "junk"}}
    IN  IF ~sc.json \/ dated = {} THEN NoInstant
        ELSE ValueInstant(sc.objs[CHOOSE j \in dated : \A k \in dated : j <= k].date)

LdSource(d) ==
    LET good == {i \in 1..Len(d.ld) : ScriptSource(d.ld[i]) # NoInstant}
    IN  IF good = {} THEN NoInstant
        ELSE ScriptSource(d.ld[CHOOSE i \in good : \A k \in good : i <= k])

TimeSource(d) ==
    IF ~d.time.present THEN NoInstant
    ELSE IF ValueInstant(d.time.datetime) # NoInstant THEN ValueInstant(d.time.datetime)
    ELSE TextInstant(d.time.text)

PageTextSource(d) == TextInstant(d.text)

Sources(d) == <<MetaSource(d), LdSource(d), TimeSource(d), PageTextSource(d)>>

\* the first source, in priority order, that holds an instant
Winner(d) ==
    LET have == {i \in 1..4 : Sources(d)[i] # NoInstant}
    IN  IF have = {} THEN 0 ELSE CHOOSE i \in have : \A k \in have : i <= k

\* C9: the publish timestamp is that of the highest-priority source holding
\* one (meta, linked data, time element, page text); a malformed source
\* counts as empty and raises nothing; it is absent exactly when all four
\* are empty.
C9_PriorityCascade ==
    ppc = "done" =>
        /\ art.ok
        /\ IF Winner(doc) = 0
           THEN art.published_utc = AbsentAttr /\ art.published_kst = AbsentAttr
           ELSE /\ art.published_utc = Iso(Sources(doc)[Winner(doc)], "+00:00")
                /\ art.published_kst = Iso(Sources(doc)[Winner(doc)] + KstOffset, "+09:00")

\* a page whose meta value and linked-data date are malformed and whose
\* time element decides the timestamp
C9_Witness ==
    /\ ppc = "done"
    /\ doc.meta = JunkText
    /\ \E i \in 1..Len(doc.ld) : \E j \in 1..Len(doc.ld[i].objs) :
          doc.ld[i].objs[j].type \in ArticleTypes /\ doc.ld[i].objs[j].date = JunkText
    /\ Winner(doc) = 3
    /\ doc.text.t = "date"
    /\ art.published_utc = Iso(TimeSource(doc), "+00:00")

\* ---- the feed handler's selection
\* the Asia/Seoul day of an entry's publish time (its update time when it
\* has no publish time), NoInstant for an undated entry
EntryDay(e) ==
    IF e.published_parsed.k = "dt" THEN (e.published_parsed.wall + KstOffset) \div HoursPerDay
    ELSE IF e.updated_parsed.k = "dt" THEN (e.updated_parsed.wall + KstOffset) \div HoursPerDay
    ELSE NoInstant

Matching == SelectSeq([i \in 1..Len(entries) |-> i], LAMBDA i : EntryDay(entries[i]) = target_date)

Selected == IF Matching # <<>> THEN Matching ELSE Slice([i \in 1..Len(entries) |-> i], n)

\* C10: the results are the first n selected entries in feed order: the
\* entries of the target day when there is one, else the first n entries
\* whatever their date; a result of another day appears only when no entry
\* matches.
C10_FeedSelection ==
    (FeedAnswered /\ fresp.status = 200) =>
        /\ [i \in 1..Len(results) |-> results[i].url] = Slice(Selected, n)
        /\ fresp.count = Len(results)
        /\ \A i \in 1..Len(results) :
              /\ results[i].published_at_kst =
                    (IF EntryDay(entries[results[i].url]) = NoInstant THEN AbsentAttr
                     ELSE isoformat(parse_date_to_kst(entries[results[i].url])))
              /\ EntryDay(entries[results[i].url]) # target_date => Matching = <<>>

\* a feed whose first entry is of another day, with more entries of the
\* target day than n
C10_Witness ==
    /\ FeedAnswered /\ fresp.status = 200
    /\ Len(entries) = 3
    /\ EntryDay(entries[1]) # target_date
    /\ Matching = <<2, 3>>
    /\ n = 1
    /\ Len(results) = 1 /\ results[1].url = 2

====
